---- MODULE Spec2Model ----
(***************************************************************************)
(* A model of braindump: the in-memory vector store (vector_store.rs), the *)
(* eviction-scored cache (memory/cache.rs) and the memory manager          *)
(* (memory/manager.rs).                                                    *)
(*                                                                         *)
(* Two specifications share the variables:                                 *)
(*   SpecDB  one InMemoryDB (the variable storage) driven directly through *)
(*           its Storage operations;                                       *)
(*   Spec    a MemoryManager owning a durable InMemoryDB (storage), an     *)
(*           optional MemoryCache (cache), a MemoryConfig (cfg) and an     *)
(*           Embedder, driven through store / retrieve /                   *)
(*           update_memory_access.                                         *)
(*                                                                         *)
(*   SpecScore  eviction_score applied to entries of every importance;     *)
(*   SpecBuild  a MemoryManagerBuilder (builder) configured and built.     *)
(*                                                                         *)
(* last is the call that has just returned; hist is what SpecDB remembers  *)
(* of the inserts made so far.                                             *)
(*                                                                         *)
(* Ids and texts are opaque strings in the source; here they are small     *)
(* naturals.  f32 components are 0 and 1, for which every sum and product  *)
(* below is exact in f32.  importance is kept in whole hundredths (0.9 is  *)
(* 90).                                                                    *)
(***************************************************************************)
EXTENDS Integers, Sequences, FiniteSets, TLC

VARIABLES storage, cache, cfg, now, last, hist, builder, generator, generated

vars == <<storage, cache, cfg, now, last, hist, builder, generator,
          generated>>

----------------------------------------------------------------------------
(* Bounds of the model *)

\* ids in use; slots a buffer may grow to; the clock's last second; the
\* largest access_count a caller passes in; the cache's capacity; the most
\* hits or misses counted.
NumIds == 2
MaxSlots == 2
MaxNow == 1
MaxAccess == 1
MaxMemoryLimit == 0
MaxStat == 1

\* The largest eviction_batch_size configured, and the slots the durable
\* storage may grow to under a config with limits.
MaxBatch == 2
MaxStores == 3

\* The calls made of one id generator.
MaxGenerated == 6

Ids == 1..NumIds

\* Values of created_at, and of the limit argument of search and retrieve.
Createds == {0, 1}
Limits == {0, 1, 2}

----------------------------------------------------------------------------
(* Small helpers: maps as functions over a finite domain, sequences *)

EmptyMap == [x \in {} |-> 0]

MapPut(m, k, v) == [x \in (DOMAIN m) \cup {k} |-> IF x = k THEN v ELSE m[x]]

MapRemove(m, k) == [x \in (DOMAIN m) \ {k} |-> m[x]]

Min(a, b) == IF a < b THEN a ELSE b

Range(s) == {s[i] : i \in DOMAIN s}

\* All orderings of the finite set S, as sequences without repetition.
Orderings(S) ==
    {s \in [1..Cardinality(S) -> S] : \A i, j \in DOMAIN s : i # j => s[i] # s[j]}

Truncate(s, n) == SubSeq(s, 1, Min(n, Len(s)))

----------------------------------------------------------------------------
(* Errors (error.rs) and results *)

Ok == [kind |-> "Ok", a |-> 0, b |-> 0]

mismatched_dimensions(store_dims, embed_dims) ==
    [kind |-> "MismatchedDimensions", a |-> store_dims, b |-> embed_dims]

embedding_not_exists(id) == [kind |-> "EmbeddingNotExists", a |-> id, b |-> 0]

EmbedderError == [kind |-> "Custom", a |-> 0, b |-> 0]

\* BuildError
EmbedderNotFound == [kind |-> "EmbedderNotFound", a |-> 0, b |-> 0]

StorageNotFound == [kind |-> "StorageNotFound", a |-> 0, b |-> 0]

\* A Rust panic (slice index out of range, unwrap on None): not an Err value.
Panic == [kind |-> "Panic", a |-> 0, b |-> 0]

----------------------------------------------------------------------------
(* MemoryEntry (memory/mod.rs) *)

MemoryEntry(id, importance, created_at, last_accessed, access_count) ==
    [id |-> id, importance |-> importance, created_at |-> created_at,
     last_accessed |-> last_accessed, access_count |-> access_count]

NoEntry == MemoryEntry(0, 0, 0, 0, 0)

SearchResult(embedding, entry) == [embedding |-> embedding, entry |-> entry]

----------------------------------------------------------------------------
(* InMemoryDB (vector_store.rs) *)

InMemoryDB_new(dim) ==
    [dim |-> dim, data |-> <<>>, payloads |-> EmptyMap,
     id_to_idx |-> EmptyMap, free_list |-> <<>>]

\* Mutant: the length check lets a shorter embedding through.
matches_dim_size_at_most(db, embedding) == Len(embedding) <= db.dim

matches_dim_size(db, embedding) == Len(embedding) = db.dim

count(db) == Cardinality(DOMAIN db.id_to_idx)

\* data[offset..offset + dim].copy_from_slice(&embedding)
copy_from_slice(data, offset, embedding) ==
    [i \in 1..Len(data) |->
        IF i > offset /\ i <= offset + Len(embedding)
        THEN embedding[i - offset] ELSE data[i]]

\* Mutant: the first free offset is recorded while the last one is popped.
insert_idx_first_free(db) ==
    IF db.free_list # <<>> THEN db.free_list[1] ELSE Len(db.data)

\* The slot insert allocates: the last free offset if there is one, else the
\* end of the buffer.
insert_idx(db) ==
    IF db.free_list # <<>> THEN db.free_list[Len(db.free_list)] ELSE Len(db.data)

\* Mutant: the embedding is appended whether or not a slot is free.
insert_data_always_appends(db, embedding) == db.data \o embedding

insert_data(db, embedding) ==
    IF db.free_list # <<>>
    THEN copy_from_slice(db.data, insert_idx(db), embedding)
    ELSE db.data \o embedding

\* Mutant: the offset taken from the free-list stays in it.
insert_free_list_keeps(db) == db.free_list

insert_free_list(db) ==
    IF db.free_list # <<>>
    THEN SubSeq(db.free_list, 1, Len(db.free_list) - 1) ELSE db.free_list

insert(db, embedding, entry) ==
    IF ~matches_dim_size(db, embedding)
    THEN [db |-> db, res |-> mismatched_dimensions(db.dim, Len(embedding))]
    ELSE [db |-> [db EXCEPT !.data = insert_data(db, embedding),
                            !.free_list = insert_free_list(db),
                            !.id_to_idx = MapPut(db.id_to_idx, entry.id, insert_idx(db)),
                            !.payloads = MapPut(db.payloads, entry.id, entry)],
          res |-> Ok]

\* Mutant: the offset is looked up and left in the index.
delete_keeps_index(db, id) ==
    IF id \notin DOMAIN db.id_to_idx
    THEN [db |-> db, res |-> embedding_not_exists(id)]
    ELSE [db |-> [db EXCEPT !.payloads = MapRemove(db.payloads, id),
                            !.free_list = Append(db.free_list, db.id_to_idx[id])],
          res |-> Ok]

delete(db, id) ==
    IF id \notin DOMAIN db.id_to_idx
    THEN [db |-> db, res |-> embedding_not_exists(id)]
    ELSE [db |-> [db EXCEPT !.id_to_idx = MapRemove(db.id_to_idx, id),
                            !.payloads = MapRemove(db.payloads, id),
                            !.free_list = Append(db.free_list, db.id_to_idx[id])],
          res |-> Ok]

\* Mutant: the batch is checked as a whole first and deleted only if every
\* id of it is live.
delete_batch_all_or_nothing(db, ids) ==
    LET dead == {i \in DOMAIN ids : ids[i] \notin DOMAIN db.id_to_idx}
        first == CHOOSE i \in dead : \A j \in dead : i <= j
    IN IF dead # {}
       THEN [db |-> db, res |-> embedding_not_exists(ids[first])]
       ELSE [db |-> [db EXCEPT
                       !.id_to_idx = [x \in (DOMAIN db.id_to_idx) \ Range(ids)
                                        |-> db.id_to_idx[x]],
                       !.payloads = [x \in (DOMAIN db.payloads) \ Range(ids)
                                       |-> db.payloads[x]],
                       !.free_list = db.free_list
                                       \o [i \in DOMAIN ids |-> db.id_to_idx[ids[i]]]],
             res |-> Ok]

RECURSIVE delete_batch(_, _)
delete_batch(db, ids) ==
    IF ids = <<>> THEN [db |-> db, res |-> Ok]
    ELSE LET r == delete(db, Head(ids))
         IN IF r.res # Ok THEN r ELSE delete_batch(r.db, Tail(ids))

\* Mutant: the payload is replaced and the id's slot is forgotten.
update_payload_by_id_drops_slot(db, id, payload) ==
    [db |-> [db EXCEPT !.payloads = MapPut(db.payloads, id, payload),
                       !.id_to_idx = MapRemove(db.id_to_idx, id)],
     res |-> Ok]

update_payload_by_id(db, id, payload) ==
    [db |-> [db EXCEPT !.payloads = MapPut(db.payloads, id, payload)], res |-> Ok]

\* data[from..from + dim]: whether the slice is inside the buffer, and its value.
slice_in_bounds(db, from) == from + db.dim <= Len(db.data)

slice(db, from) == SubSeq(db.data, from + 1, from + db.dim)

search_by_id(db, id) ==
    IF id \notin DOMAIN db.id_to_idx
    THEN [res |-> embedding_not_exists(id), out |-> <<>>]
    ELSE IF ~slice_in_bounds(db, db.id_to_idx[id])
    THEN [res |-> Panic, out |-> <<>>]
    ELSE IF id \notin DOMAIN db.payloads
    THEN [res |-> embedding_not_exists(id), out |-> <<>>]
    ELSE [res |-> Ok,
          out |-> <<SearchResult(slice(db, db.id_to_idx[id]), db.payloads[id])>>]

\* fetch_embedding(id): [res, embedding].
fetch_embedding(db, id) ==
    IF id \notin DOMAIN db.id_to_idx
    THEN [res |-> embedding_not_exists(id), embedding |-> <<>>]
    ELSE IF ~slice_in_bounds(db, db.id_to_idx[id])
    THEN [res |-> Panic, embedding |-> <<>>]
    ELSE [res |-> Ok, embedding |-> slice(db, db.id_to_idx[id])]

\* entries after sort_by_key(|e| e.created_at): the keys of payloads in an
\* order of non-decreasing created_at (a stable sort of the HashMap's
\* arbitrary iteration order).
oldest_orders(db) ==
    {o \in Orderings(DOMAIN db.payloads) :
        \A i, j \in DOMAIN o :
            i < j => db.payloads[o[i]].created_at <= db.payloads[o[j]].created_at}

\* entries after sort_by_key(|e| Reverse(e.created_at)).
recent_orders(db) ==
    {o \in Orderings(DOMAIN db.payloads) :
        \A i, j \in DOMAIN o :
            i < j => db.payloads[o[i]].created_at >= db.payloads[o[j]].created_at}

\* The map over the truncated entries and its collect into a Result: the
\* first fetch_embedding that fails ends it.  [res, order, out], order being
\* the ids of the payloads returned.
collect_results(db, o) ==
    LET fetched == [i \in DOMAIN o |-> fetch_embedding(db, db.payloads[o[i]].id)]
        bad == {i \in DOMAIN o : fetched[i].res # Ok}
    IN IF bad = {}
       THEN [res |-> Ok,
             order |-> [i \in DOMAIN o |-> db.payloads[o[i]].id],
             out |-> [i \in DOMAIN o |->
                        SearchResult(fetched[i].embedding, db.payloads[o[i]])]]
       ELSE [res |-> fetched[CHOOSE i \in bad : \A j \in bad : i <= j].res,
             order |-> <<>>, out |-> <<>>]

\* Every outcome of get_oldest(limit) and of get_recent(limit).
get_oldest(db, limit) ==
    {collect_results(db, Truncate(o, limit)) : o \in oldest_orders(db)}

get_recent(db, limit) ==
    {collect_results(db, Truncate(o, limit)) : o \in recent_orders(db)}

----------------------------------------------------------------------------
(* cosine_similarity and search (vector_store.rs) *)

RECURSIVE SumTo(_, _, _)
\* sum over i in 1..n of a[i] * b[i]
SumTo(a, b, n) == IF n = 0 THEN 0 ELSE SumTo(a, b, n - 1) + a[n] * b[n]

\* The three accumulators of cosine_similarity after its loop over 0..a.len().
\* The returned f32 is (cos + 1) / 2 with cos = dot / (sqrt(norm_a) * sqrt(norm_b));
\* it is NaN exactly when a norm is zero (0.0 / 0.0).  The value is kept as the
\* accumulators and compared exactly by partial_cmp below.
cosine_similarity(a, b) ==
    [dot |-> SumTo(a, b, Len(a)),
     norm_a |-> SumTo(a, a, Len(a)),
     norm_b |-> SumTo(b, b, Len(a))]

is_nan(score) == score.norm_a = 0 \/ score.norm_b = 0

Sign(x) == IF x > 0 THEN 1 ELSE IF x < 0 THEN -1 ELSE 0

\* The order of (cos + 1) / 2 is the order of cos, which is the order of
\* sign(dot) * dot^2 / (norm_a * norm_b): compared by cross-multiplication.
score_key(x, y) == Sign(x.dot) * x.dot * x.dot * y.norm_a * y.norm_b

\* f32::partial_cmp
partial_cmp(x, y) ==
    IF is_nan(x) \/ is_nan(y) THEN "None"
    ELSE IF score_key(x, y) < score_key(y, x) THEN "Less"
    ELSE IF score_key(x, y) > score_key(y, x) THEN "Greater"
    ELSE "Equal"

\* The offset search reads for the id whose recorded offset is idx.
search_offset(db, idx) == idx * db.dim

\* The score search computes for a live id.
search_score(db, embedding, id) ==
    cosine_similarity(embedding, slice(db, search_offset(db, db.id_to_idx[id])))

\* out.sort_by(|a, b| b.2.partial_cmp(&a.2).unwrap()) is a stable sort of the
\* HashMap's arbitrary iteration order: every ordering of the live ids in
\* which no later element compares Greater than an earlier one.
search_orders(db, embedding) ==
    {o \in Orderings(DOMAIN db.id_to_idx) :
        \A i, j \in DOMAIN o :
            i < j => partial_cmp(search_score(db, embedding, o[i]),
                                 search_score(db, embedding, o[j])) # "Less"}

\* The embedding search puts in the SearchResult of an id.
search_result_embedding(db, embedding, id) == embedding

search_panics(db, embedding) ==
    LET live == DOMAIN db.id_to_idx
    IN \/ \E id \in live : ~slice_in_bounds(db, search_offset(db, db.id_to_idx[id]))
       \/ live # {} /\ Len(embedding) > db.dim
       \/ /\ Cardinality(live) >= 2
          /\ \E id \in live : is_nan(search_score(db, embedding, id))

\* Every outcome search can have: [res, order, out], order being the ids of
\* the results in rank order.
search(db, embedding, limit) ==
    IF search_panics(db, embedding)
    THEN {[res |-> Panic, order |-> <<>>, out |-> <<>>]}
    ELSE {[res |-> Ok,
           order |-> Truncate(o, limit),
           out |-> [i \in 1..Min(limit, Len(o)) |->
                      SearchResult(search_result_embedding(db, embedding, o[i]),
                                   db.payloads[o[i]])]] :
             o \in search_orders(db, embedding)}

----------------------------------------------------------------------------
(* The vector store driven directly: specification SpecDB *)

dim == 2

\* Embeddings offered to the store: two of the store's dimensionality with
\* different cosines to <<1, 0>>, and one of another length.
Embeddings == {<<1, 0>>, <<0, 1>>, <<1>>}

DBEntries == {MemoryEntry(id, 50, c, c, 0) : id \in Ids, c \in Createds}

NoCache == [present |-> FALSE, store |-> InMemoryDB_new(0),
            hits |-> 0, misses |-> 0, max_memory_limit |-> 0]

NoCfg == [max_total_memories |-> [some |-> FALSE, value |-> 0],
          eviction_batch_size |-> 0, custom_caching_strategy |-> "None"]

\* The record of a call: its name, its arguments (those it does not take are
\* 0, <<>> or NoEntry), its result, and for a search the ids and the results
\* returned, in rank order.  embeds is the number of times the call invoked
\* the embedder: a call on the store itself never does.  again tells that the
\* call repeats the call before it, made as soon as that one returned.
Call(op, id, embedding, entry, limit, ids, res, order, out) ==
    [op |-> op, id |-> id, text |-> 0, embedding |-> embedding, entry |-> entry,
     limit |-> limit, ids |-> ids, res |-> res, order |-> order, out |-> out,
     embeds |-> 0, again |-> FALSE, evictions |-> <<>>]

\* The record of a call of the manager: text is the text passed in, embedding
\* what the embedder returned for it (<<>> when it failed).
ManagerCall(op, text, embedding, entry, limit, res, order, out, embeds) ==
    [op |-> op, id |-> 0, text |-> text, embedding |-> embedding, entry |-> entry,
     limit |-> limit, ids |-> <<>>, res |-> res, order |-> order, out |-> out,
     embeds |-> embeds, again |-> FALSE, evictions |-> <<>>]

NoCall == Call("new", 0, <<>>, NoEntry, 0, <<>>, Ok, <<>>, <<>>)

\* last is the call that has just returned and its result; the caller takes
\* the result (Return) before it makes the next call.
Idle == last = NoCall

Return ==
    /\ ~Idle
    /\ last' = NoCall
    /\ UNCHANGED <<storage, cache, cfg, now, hist, builder, generator, generated>>

\* Option<T>: None carries a value of T's shape that is never read.
None(unread) == [some |-> FALSE, value |-> unread]

Some(v) == [some |-> TRUE, value |-> v]

\* MemoryManagerBuilder::new(): nothing set.  consumed tells that build(self)
\* has taken the builder; its fields stay as build found them.
MemoryManagerBuilder_new ==
    [storage |-> None(InMemoryDB_new(0)), embedder |-> None(0),
     cfg |-> None(NoCfg), hot_cache |-> None(NoCache), consumed |-> FALSE]

----------------------------------------------------------------------------
(* Counter and MemoryIdGenerator (id_gen.rs).  A String is the sequence of
   its characters.  The counter is a u64; the model's generators stay far
   below 2^64. *)

DigitChars == <<"0", "1", "2", "3", "4", "5", "6", "7", "8", "9">>

\* u64::to_string: the decimal digits, most significant first, none padded.
RECURSIVE to_string(_)
to_string(n) ==
    IF n < 10 THEN <<DigitChars[n + 1]>>
    ELSE Append(to_string(n \div 10), DigitChars[(n % 10) + 1])

digit_value(ch) == CHOOSE d \in 0..9 : DigitChars[d + 1] = ch

\* str::parse::<u64> of a string of decimal digits.
RECURSIVE parse_u64(_)
parse_u64(str) ==
    IF Len(str) = 0 THEN 0
    ELSE parse_u64(SubSeq(str, 1, Len(str) - 1)) * 10 + digit_value(str[Len(str)])

Counter_new == 1

Counter_from_number(num) == num

\* Counter::get_id: [counter, num].
get_id(counter) == [counter |-> counter + 1, num |-> counter]

\* <Counter as IdGenerationStrategy>::generate_id: [counter, id].
Counter_generate_id(counter) ==
    [counter |-> get_id(counter).counter, id |-> to_string(get_id(counter).num)]

\* Mutant: the number is padded with zeros to 6 characters.
fmt_06(id) ==
    [i \in 1..(IF Len(to_string(id)) < 6 THEN 6 - Len(to_string(id)) ELSE 0) |-> "0"]
        \o to_string(id)

\* format!("{id:09}"): the decimal digits, with zeros in front up to 9
\* characters, and as they are when they are 9 or more.
fmt_09(id) ==
    [i \in 1..(IF Len(to_string(id)) < 9 THEN 9 - Len(to_string(id)) ELSE 0) |-> "0"]
        \o to_string(id)

mem == <<"m", "e", "m">>
doc == <<"d", "o", "c">>

MemoryIdGenerator_new == [prefix |-> mem, counter |-> Counter_new]

\* MemoryIdGeneratorBuilder::build, from the prefix and the counter given or
\* not (Options).
MemoryIdGeneratorBuilder_build(prefix, counter) ==
    [prefix |-> IF prefix.some THEN prefix.value ELSE mem,
     counter |-> IF counter.some THEN counter.value ELSE Counter_new]

\* <MemoryIdGenerator as IdGenerationStrategy>::generate_id: [generator, id].
generate_id(g) ==
    LET c == Counter_generate_id(g.counter)
        id == parse_u64(c.id)
    IN [generator |-> [g EXCEPT !.counter = c.counter],
        id |-> g.prefix \o <<"-">> \o fmt_09(id)]

\* What is remembered of the inserts made so far: peak, the largest number of
\* ids that were live at the same time, and fresh, whether every successful
\* insert was of an id that was not live when it was made.
NoHist == [peak |-> 0, fresh |-> TRUE]

after_insert(h, db, r, id) ==
    IF r.res # Ok THEN h
    ELSE [peak |-> IF count(r.db) > h.peak THEN count(r.db) ELSE h.peak,
          fresh |-> h.fresh /\ id \notin DOMAIN db.id_to_idx]

InitDB ==
    /\ storage = InMemoryDB_new(dim)
    /\ cache = NoCache
    /\ cfg = NoCfg
    /\ now = 0
    /\ last = NoCall
    /\ hist = NoHist
    /\ builder = MemoryManagerBuilder_new
    /\ generator = MemoryIdGenerator_new
    /\ generated = <<>>

\* The buffer is a Vec that grows without limit; the model stops appending at
\* MaxSlots slots.
CanInsert(db, embedding) ==
    \/ ~matches_dim_size(db, embedding)
    \/ db.free_list # <<>>
    \/ Len(db.data) < MaxSlots * db.dim

DBInsert ==
    \E embedding \in Embeddings, entry \in DBEntries :
        /\ Idle
        /\ CanInsert(storage, embedding)
        /\ LET r == insert(storage, embedding, entry)
           IN /\ storage' = r.db
              /\ last' = Call("insert", entry.id, embedding, entry, 0, <<>>,
                              r.res, <<>>, <<>>)
              /\ hist' = after_insert(hist, storage, r, entry.id)
        /\ UNCHANGED <<cache, cfg, now, builder, generator, generated>>

\* A delete is made by an idle caller, or again by the caller whose delete of
\* the same id has just succeeded.
DBDelete ==
    \E id \in Ids :
        /\ \/ Idle
           \/ last.op = "delete" /\ last.id = id /\ last.res = Ok
        /\ LET r == delete(storage, id)
           IN /\ storage' = r.db
              /\ last' = [Call("delete", id, <<>>, NoEntry, 0, <<>>, r.res, <<>>, <<>>)
                            EXCEPT !.again = ~Idle]
        /\ UNCHANGED <<cache, cfg, now, hist, builder, generator, generated>>

Batches ==
    {<<>>} \cup {<<i>> : i \in Ids} \cup {<<i, j>> : i, j \in Ids}
           \cup {<<i, j, k>> : i, j, k \in Ids}

DBDeleteBatch ==
    \E ids \in Batches :
        /\ Idle
        /\ LET r == delete_batch(storage, ids)
           IN /\ storage' = r.db
              /\ last' = Call("delete_batch", 0, <<>>, NoEntry, 0, ids, r.res,
                              <<>>, <<>>)
        /\ UNCHANGED <<cache, cfg, now, hist, builder, generator, generated>>

\* As in the manager's call, the payload is passed under its own id.
DBUpdatePayload ==
    \E entry \in DBEntries :
        /\ Idle
        /\ LET r == update_payload_by_id(storage, entry.id, entry)
           IN /\ storage' = r.db
              /\ last' = Call("update_payload_by_id", entry.id, <<>>, entry, 0, <<>>,
                              r.res, <<>>, <<>>)
        /\ UNCHANGED <<cache, cfg, now, hist, builder, generator, generated>>

DBSearch ==
    /\ Idle
    /\ \E embedding \in Embeddings, limit \in Limits :
        \E r \in search(storage, embedding, limit) :
            /\ last' = Call("search", 0, embedding, NoEntry, limit, <<>>, r.res,
                            r.order, r.out)
            /\ UNCHANGED <<storage, cache, cfg, now, hist, builder, generator, generated>>

DBSearchById ==
    \E id \in Ids :
        /\ Idle
        /\ LET r == search_by_id(storage, id)
           IN last' = Call("search_by_id", id, <<>>, NoEntry, 0, <<>>, r.res,
                           <<>>, r.out)
        /\ UNCHANGED <<storage, cache, cfg, now, hist, builder, generator, generated>>

DBGetOldest ==
    /\ Idle
    /\ \E limit \in Limits :
        \E r \in get_oldest(storage, limit) :
            /\ last' = Call("get_oldest", 0, <<>>, NoEntry, limit, <<>>, r.res,
                            r.order, r.out)
            /\ UNCHANGED <<storage, cache, cfg, now, hist, builder, generator, generated>>

DBGetRecent ==
    /\ Idle
    /\ \E limit \in Limits :
        \E r \in get_recent(storage, limit) :
            /\ last' = Call("get_recent", 0, <<>>, NoEntry, limit, <<>>, r.res,
                            r.order, r.out)
            /\ UNCHANGED <<storage, cache, cfg, now, hist, builder, generator, generated>>

NextDB ==
    \/ DBInsert
    \/ DBDelete
    \/ DBDeleteBatch
    \/ DBUpdatePayload
    \/ DBSearch
    \/ DBSearchById
    \/ DBGetOldest
    \/ DBGetRecent
    \/ Return

SpecDB == InitDB /\ [][NextDB]_vars

----------------------------------------------------------------------------
(* MemoryCache (memory/cache.rs) *)

SAMPLE_SIZE == 100

MemoryCache(store, max_memory_limit) ==
    [present |-> TRUE, store |-> store, hits |-> 0, misses |-> 0,
     max_memory_limit |-> max_memory_limit]

\* (entry.importance * 100.0) as i64: the f32 product truncated toward zero.
\* For importance a whole number h of hundredths the product is h, except
\* that 0.53 and 0.59 give 52.999996 and 58.999996.
importance_scaled(h) == IF h \in {53, 59} THEN h - 1 ELSE h

\* eviction_score at clock reading t.
eviction_score(entry, t) ==
    LET recency == t - entry.last_accessed
        frequency == entry.access_count
        importance == importance_scaled(entry.importance)
    IN frequency * 1000 + importance * 100 - recency

\* random_sample(count): count payloads drawn at random (all of them when
\* there are fewer), as the set of their keys.
random_sample(db, n) ==
    {S \in SUBSET (DOMAIN db.payloads) :
        Cardinality(S) = Min(n, Cardinality(DOMAIN db.payloads))}

\* to_evict after sort_by_key: the sampled keys in an order of non-decreasing
\* score (the sort is stable and the sample's order is random).
to_evict(db, S, t) ==
    {o \in Orderings(S) :
        \A i, j \in DOMAIN o :
            i < j => eviction_score(db.payloads[o[i]], t)
                       <= eviction_score(db.payloads[o[j]], t)}

\* The ids the loop deletes: the entries' own ids, the first k of them.
evict_ids(db, o, k) == [i \in 1..Min(k, Len(o)) |-> db.payloads[o[i]].id]

\* Every outcome of evict_from_cache(k) on the cache's store: [db, res].  The
\* loop stops at the first delete that fails, as delete_batch does.
evict_from_cache(db, k, t) ==
    {delete_batch(db, evict_ids(db, o, k)) :
        o \in UNION {to_evict(db, S, t) :
                        S \in random_sample(db, Min(SAMPLE_SIZE, count(db)))}}

----------------------------------------------------------------------------
(* MemoryConfig and MemoryManager (memory/manager.rs) *)

\* MemoryConfig::new(), with custom_caching_strategy as given.  max_age_days
\* and min_retention_score are read nowhere and left out.
MemoryConfig(custom_caching_strategy) ==
    [max_total_memories |-> None(0), eviction_batch_size |-> 1,
     custom_caching_strategy |-> custom_caching_strategy]

\* A config whose two public limit fields have been assigned.
with_limits(c, max_total_memories, eviction_batch_size) ==
    [c EXCEPT !.max_total_memories = max_total_memories,
              !.eviction_batch_size = eviction_batch_size]

\* The custom strategy of the model, |_, entry| entry.importance <= 0.5: it
\* differs from the default on every entry with access_count = 0.
custom_strategy(c, entry) == entry.importance <= 50

\* Mutant: the default predicate asks for importance and access together.
should_cache_needs_both(c, entry) ==
    IF c.custom_caching_strategy # "None"
    THEN custom_strategy(c, entry)
    ELSE entry.importance > 50 /\ entry.access_count > 0

should_cache(c, entry) ==
    IF c.custom_caching_strategy # "None"
    THEN custom_strategy(c, entry)
    ELSE entry.importance > 50 \/ entry.access_count > 0

\* The Embedder: a deterministic map from text to vector that may also fail.
Texts == {1, 2}

TextEmbedding(text) == IF text = 1 THEN <<1, 0>> ELSE <<0, 1>>

embed_text(text, fails) ==
    IF fails THEN [res |-> EmbedderError, embedding |-> <<>>]
    ELSE [res |-> Ok, embedding |-> TextEmbedding(text)]

\* The argument of store's call of evict_from_cache: the literal 1.
store_evict_count(cf) == 1

\* What store does to the cache once the durable insert has succeeded: every
\* outcome [cache, res, evictions]; evictions has one element for each run of
\* evict_from_cache, the number of live entries the run took out.
store_cache(c, cf, embedding, entry, t) ==
    IF c.present /\ should_cache(cf, entry)
    THEN LET evicted ==
                 IF count(c.store) > c.max_memory_limit
                 THEN {[db |-> e.db, evictions |-> <<count(c.store) - count(e.db)>>] :
                         e \in evict_from_cache(c.store, store_evict_count(cf), t)}
                 ELSE {[db |-> c.store, evictions |-> <<>>]}
         IN {[cache |-> [c EXCEPT !.store = insert(e.db, embedding, entry).db],
              res |-> insert(e.db, embedding, entry).res,
              evictions |-> e.evictions] : e \in evicted}
    ELSE {[cache |-> c, res |-> Ok, evictions |-> <<>>]}

\* Mutant: the embedder's error is swallowed and store reports success.
store_embed_err_swallowed(st, c, e) ==
    [storage |-> st, cache |-> c, embedding |-> <<>>, res |-> Ok, embeds |-> 1,
     evictions |-> <<>>]

\* embed_text(..).await? on an Err: store returns the embedder's error at once,
\* having called the embedder once and nothing else.
store_embed_err(st, c, e) ==
    [storage |-> st, cache |-> c, embedding |-> <<>>, res |-> e.res, embeds |-> 1,
     evictions |-> <<>>]

\* Mutant: the cache is written and the durable insert is not kept.
store_after_cache_without_durable(st, durable, r, embedding) ==
    [storage |-> st, cache |-> r.cache, embedding |-> embedding,
     res |-> r.res, embeds |-> 1, evictions |-> r.evictions]

\* Mutant: a failed cache write takes the durable write back.
store_after_cache_rolls_back(st, durable, r, embedding) ==
    [storage |-> IF r.res = Ok THEN durable.db ELSE st, cache |-> r.cache,
     embedding |-> embedding, res |-> r.res, embeds |-> 1,
     evictions |-> r.evictions]

\* What store returns once the cache's part has ended with r = [cache, res]:
\* the durable insert stays as it is, and r.res (the cache insert's ? or the
\* final Ok(())) is the result.
store_after_cache(st, durable, r, embedding) ==
    [storage |-> durable.db, cache |-> r.cache, embedding |-> embedding,
     res |-> r.res, embeds |-> 1, evictions |-> r.evictions]

\* Every outcome of store: [storage, cache, embedding, res, embeds]; embeds
\* counts the calls of embed_text.
store(st, c, cf, text, entry, fails, t) ==
    LET e == embed_text(text, fails)
        durable == insert(st, e.embedding, entry)
    IN IF e.res # Ok
       THEN {store_embed_err(st, c, e)}
       ELSE IF durable.res # Ok
       THEN {[storage |-> st, cache |-> c, embedding |-> e.embedding,
              res |-> durable.res, embeds |-> 1, evictions |-> <<>>]}
       ELSE {store_after_cache(st, durable, r, e.embedding) :
                r \in store_cache(c, cf, e.embedding, entry, t)}

Entries(results) == [i \in DOMAIN results |-> results[i].entry]

add_hit(c) == [c EXCEPT !.hits = @ + 1]

\* Mutant: a miss is counted as a hit.
add_miss_counts_hit(c) == [c EXCEPT !.hits = @ + 1]

add_miss(c) == [c EXCEPT !.misses = @ + 1]

\* The cache's part of retrieve: every outcome [cache, res, order, out].
retrieve_cache(c, embedding, limit) ==
    IF ~c.present
    THEN {[cache |-> c, res |-> Ok, order |-> <<>>, out |-> <<>>]}
    ELSE {IF r.res # Ok
          THEN [cache |-> c, res |-> r.res, order |-> <<>>, out |-> <<>>]
          ELSE [cache |-> IF r.out # <<>> THEN add_hit(c) ELSE add_miss(c),
                res |-> Ok, order |-> r.order, out |-> r.out] :
            r \in search(c.store, embedding, limit)}

\* Mutant: the durable results are put before the cache's.
retrieve_deep_prepends(st, embedding, limit, results) ==
    IF Len(results) < limit
    THEN {[res |-> d.res, out |-> IF d.res = Ok THEN d.out \o results ELSE <<>>] :
            d \in search(st, embedding, limit - Len(results))}
    ELSE {[res |-> Ok, out |-> results]}

\* The durable part of retrieve, given the cache's results: every outcome
\* [res, out].
retrieve_deep(st, embedding, limit, results) ==
    IF Len(results) < limit
    THEN {[res |-> d.res, out |-> IF d.res = Ok THEN results \o d.out ELSE <<>>] :
            d \in search(st, embedding, limit - Len(results))}
    ELSE {[res |-> Ok, out |-> results]}

\* Every outcome of retrieve: [cache, embedding, res, order, out]; order is the
\* ids of the cache's results, out the entries returned.
retrieve(st, c, text, limit, fails) ==
    LET e == embed_text(text, fails)
    IN IF e.res # Ok
       THEN {[cache |-> c, embedding |-> <<>>, res |-> e.res, order |-> <<>>,
              out |-> <<>>]}
       ELSE UNION {
              IF r.res # Ok
              THEN {[cache |-> r.cache, embedding |-> e.embedding, res |-> r.res,
                     order |-> <<>>, out |-> <<>>]}
              ELSE {[cache |-> r.cache, embedding |-> e.embedding, res |-> d.res,
                     order |-> r.order, out |-> Entries(d.out)] :
                      d \in retrieve_deep(st, e.embedding, limit, r.out)} :
              r \in retrieve_cache(c, e.embedding, limit)}

\* memory after the two assignments of update_memory_access.
accessed(memory, t) ==
    [memory EXCEPT !.last_accessed = t, !.access_count = @ + 1]

\* The outcome of update_memory_access: [cache, res].
update_memory_access(c, cf, memory, t) ==
    IF should_cache(cf, accessed(memory, t)) /\ c.present
    THEN [cache |-> [c EXCEPT !.store =
                        update_payload_by_id(c.store, memory.id,
                                             accessed(memory, t)).db],
          res |-> update_payload_by_id(c.store, memory.id, accessed(memory, t)).res]
    ELSE [cache |-> c, res |-> Ok]

----------------------------------------------------------------------------
(* The manager: specification Spec *)

Importances == {10, 90}

\* Entries a caller passes to store: new entries, access_count = 0.
NewEntries == {MemoryEntry(id, h, 0, 0, 0) : id \in Ids, h \in Importances}

\* Entries a caller passes to update_memory_access: any entry it made or got
\* back, with access_count below the model's bound.
HeldEntries ==
    {e \in NewEntries \cup Range(storage.payloads) \cup Range(cache.store.payloads) :
        e.access_count < MaxAccess}

\* The dimensionality of a hot cache built with another InMemoryDB than the
\* storage's.
other_dim == 1

\* The manager as built: without a hot cache, or with an empty one of the
\* storage's dimensionality, under the default config or a custom strategy, or
\* with an empty one of another dimensionality under the default config.
Init ==
    /\ storage = InMemoryDB_new(dim)
    /\ \/ cache = NoCache /\ cfg = MemoryConfig("None")
       \/ /\ cache = MemoryCache(InMemoryDB_new(dim), MaxMemoryLimit)
          /\ cfg \in {MemoryConfig("None"), MemoryConfig("Custom")}
       \/ /\ cache = MemoryCache(InMemoryDB_new(other_dim), MaxMemoryLimit)
          /\ cfg = MemoryConfig("None")
    /\ now = 0
    /\ last = NoCall
    /\ hist = NoHist
    /\ builder = MemoryManagerBuilder_new
    /\ generator = MemoryIdGenerator_new
    /\ generated = <<>>

Store ==
    \E text \in Texts, entry \in NewEntries, fails \in BOOLEAN :
        /\ Idle
        /\ fails \/ CanInsert(storage, TextEmbedding(text))
        /\ \E r \in store(storage, cache, cfg, text, entry, fails, now) :
            /\ storage' = r.storage
            /\ cache' = r.cache
            /\ last' = [ManagerCall("store", text, r.embedding, entry, 0, r.res,
                                    <<>>, <<>>, r.embeds)
                            EXCEPT !.evictions = r.evictions]
        /\ UNCHANGED <<cfg, now, hist, builder, generator, generated>>

Retrieve ==
    \E text \in Texts, limit \in Limits, fails \in BOOLEAN :
        /\ Idle
        /\ cache.hits < MaxStat /\ cache.misses < MaxStat
        /\ \E r \in retrieve(storage, cache, text, limit, fails) :
            /\ cache' = r.cache
            /\ last' = ManagerCall("retrieve", text, r.embedding, NoEntry, limit,
                                   r.res, r.order, r.out, 1)
        /\ UNCHANGED <<storage, cfg, now, hist, builder, generator, generated>>

UpdateMemoryAccess ==
    \E memory \in HeldEntries :
        /\ Idle
        /\ LET r == update_memory_access(cache, cfg, memory, now)
           IN /\ cache' = r.cache
              /\ last' = ManagerCall("update_memory_access", 0, <<>>, memory, 0,
                                     r.res, <<>>, <<>>, 0)
        /\ UNCHANGED <<storage, cfg, now, hist, builder, generator, generated>>

\* Utc::now() advances between calls.
Tick ==
    /\ Idle
    /\ now < MaxNow
    /\ now' = now + 1
    /\ UNCHANGED <<storage, cache, cfg, last, hist, builder, generator, generated>>

Next ==
    \/ Store
    \/ Retrieve
    \/ UpdateMemoryAccess
    \/ Tick
    \/ Return

Spec == Init /\ [][Next]_vars

----------------------------------------------------------------------------
(* MemoryManagerBuilder (memory/manager.rs): specification SpecBuild *)

\* MemoryCache::new(store): the limit it sets stands at MaxMemoryLimit here.
MemoryCache_new(db) == MemoryCache(db, MaxMemoryLimit)

builder_storage(b, s) == [b EXCEPT !.storage = Some(s)]

builder_embedder(b) == [b EXCEPT !.embedder = Some(1)]

builder_config(b, c) == [b EXCEPT !.cfg = Some(c)]

builder_hot_cache(b, db) == [b EXCEPT !.hot_cache = Some(MemoryCache_new(db))]

\* Mutant: the embedder is looked for before the storage.
build_embedder_first(b) ==
    IF ~b.embedder.some
    THEN [res |-> EmbedderNotFound, storage |-> InMemoryDB_new(0),
          cfg |-> NoCfg, hot_cache |-> NoCache]
    ELSE IF ~b.storage.some
    THEN [res |-> StorageNotFound, storage |-> InMemoryDB_new(0),
          cfg |-> NoCfg, hot_cache |-> NoCache]
    ELSE [res |-> Ok, storage |-> b.storage.value,
          cfg |-> IF b.cfg.some THEN b.cfg.value ELSE MemoryConfig("None"),
          hot_cache |-> IF b.hot_cache.some THEN b.hot_cache.value ELSE NoCache]

\* build(self): [res, storage, cfg, hot_cache], the last three being the
\* manager's fields when res is Ok.
build(b) ==
    IF ~b.storage.some
    THEN [res |-> StorageNotFound, storage |-> InMemoryDB_new(0),
          cfg |-> NoCfg, hot_cache |-> NoCache]
    ELSE IF ~b.embedder.some
    THEN [res |-> EmbedderNotFound, storage |-> InMemoryDB_new(0),
          cfg |-> NoCfg, hot_cache |-> NoCache]
    ELSE [res |-> Ok, storage |-> b.storage.value,
          cfg |-> IF b.cfg.some THEN b.cfg.value ELSE MemoryConfig("None"),
          hot_cache |-> IF b.hot_cache.some THEN b.hot_cache.value ELSE NoCache]

\* Before build there is no manager: storage, cache and cfg hold nothing.
InitBuild ==
    /\ storage = InMemoryDB_new(0)
    /\ cache = NoCache
    /\ cfg = NoCfg
    /\ now = 0
    /\ last = NoCall
    /\ hist = NoHist
    /\ builder = MemoryManagerBuilder_new
    /\ generator = MemoryIdGenerator_new
    /\ generated = <<>>

BuilderStorage ==
    /\ ~builder.consumed
    /\ \E d \in {dim, other_dim} :
          builder' = builder_storage(builder, InMemoryDB_new(d))
    /\ UNCHANGED <<storage, cache, cfg, now, last, hist, generator, generated>>

BuilderEmbedder ==
    /\ ~builder.consumed
    /\ builder' = builder_embedder(builder)
    /\ UNCHANGED <<storage, cache, cfg, now, last, hist, generator, generated>>

BuilderConfig ==
    /\ ~builder.consumed
    /\ \E c \in {MemoryConfig("None"), MemoryConfig("Custom")} :
          builder' = builder_config(builder, c)
    /\ UNCHANGED <<storage, cache, cfg, now, last, hist, generator, generated>>

BuilderHotCache ==
    /\ ~builder.consumed
    /\ \E d \in {dim, other_dim} :
          builder' = builder_hot_cache(builder, InMemoryDB_new(d))
    /\ UNCHANGED <<storage, cache, cfg, now, last, hist, generator, generated>>

Build ==
    /\ ~builder.consumed
    /\ LET r == build(builder)
       IN /\ storage' = r.storage
          /\ cfg' = r.cfg
          /\ cache' = r.hot_cache
          /\ last' = Call("build", 0, <<>>, NoEntry, 0, <<>>, r.res, <<>>, <<>>)
    /\ builder' = [builder EXCEPT !.consumed = TRUE]
    /\ UNCHANGED <<now, hist, generator, generated>>

NextBuild ==
    \/ BuilderStorage
    \/ BuilderEmbedder
    \/ BuilderConfig
    \/ BuilderHotCache
    \/ Build
    \/ Return

SpecBuild == InitBuild /\ [][NextBuild]_vars

----------------------------------------------------------------------------
(* The manager under a config with limits: specification SpecLimits *)

\* Configs with max_total_memories None or Some(m) and eviction_batch_size
\* from 1 to MaxBatch.
LimitConfigs ==
    {with_limits(MemoryConfig("None"), m, k) :
        m \in {None(0)} \cup {Some(n) : n \in 1..MaxStores - 1},
        k \in 1..MaxBatch}

\* A manager built with a hot cache and one of LimitConfigs.  The cache's
\* limit is such that a store that finds the cache over it finds at least
\* MaxBatch entries there.
InitLimits ==
    /\ storage = InMemoryDB_new(dim)
    /\ cache = MemoryCache(InMemoryDB_new(dim), MaxBatch - 1)
    /\ cfg \in LimitConfigs
    /\ now = 0
    /\ last = NoCall
    /\ hist = NoHist
    /\ builder = MemoryManagerBuilder_new
    /\ generator = MemoryIdGenerator_new
    /\ generated = <<>>

\* store, as in Store, while the durable storage has fewer than MaxStores
\* slots.
StoreLimits ==
    \E text \in Texts, entry \in NewEntries, fails \in BOOLEAN :
        /\ Idle
        /\ fails \/ Len(storage.data) < MaxStores * storage.dim
        /\ \E r \in store(storage, cache, cfg, text, entry, fails, now) :
            /\ storage' = r.storage
            /\ cache' = r.cache
            /\ last' = [ManagerCall("store", text, r.embedding, entry, 0, r.res,
                                    <<>>, <<>>, r.embeds)
                            EXCEPT !.evictions = r.evictions]
        /\ UNCHANGED <<cfg, now, hist, builder, generator, generated>>

NextLimits ==
    \/ StoreLimits
    \/ Tick
    \/ Return

SpecLimits == InitLimits /\ [][NextLimits]_vars

----------------------------------------------------------------------------
(* The id generator: specification SpecIdGen *)

\* Numbers a counter is started from: 1, and numbers whose successors have
\* more digits.
StartNumbers == {1, 8, 98, 99998, 999998, 999999998}

\* MemoryIdGenerator::new(), or a generator built with or without a prefix
\* and with or without a counter.
InitIdGen ==
    /\ storage = InMemoryDB_new(0)
    /\ cache = NoCache
    /\ cfg = NoCfg
    /\ now = 0
    /\ last = NoCall
    /\ hist = NoHist
    /\ builder = MemoryManagerBuilder_new
    /\ generator \in {MemoryIdGenerator_new} \cup
          {MemoryIdGeneratorBuilder_build(p, c) :
              p \in {None(<<>>), Some(mem), Some(doc)},
              c \in {None(0)} \cup {Some(Counter_from_number(n)) : n \in StartNumbers}}
    /\ generated = <<>>

\* generated is the ids returned so far, in order.
GenerateId ==
    /\ Idle
    /\ Len(generated) < MaxGenerated
    /\ LET r == generate_id(generator)
       IN /\ generator' = r.generator
          /\ generated' = Append(generated, r.id)
          /\ last' = Call("generate_id", 0, <<>>, NoEntry, 0, <<r.id>>, Ok, <<>>, <<>>)
    /\ UNCHANGED <<storage, cache, cfg, now, hist, builder>>

NextIdGen ==
    \/ GenerateId
    \/ Return

SpecIdGen == InitIdGen /\ [][NextIdGen]_vars

----------------------------------------------------------------------------
(* eviction_score applied to entries of every importance: specification
   SpecScore *)

\* importance, a decimal number between 0.0 and 1.0, in whole hundredths.
Hundredths == 0..100

ScoredEntries ==
    {MemoryEntry(1, h, 0, la, ac) :
        h \in Hundredths, la \in 0..now, ac \in 0..MaxAccess}

InitScore ==
    /\ storage = InMemoryDB_new(dim)
    /\ cache = NoCache
    /\ cfg = NoCfg
    /\ now = 0
    /\ last = NoCall
    /\ hist = NoHist
    /\ builder = MemoryManagerBuilder_new
    /\ generator = MemoryIdGenerator_new
    /\ generated = <<>>

\* eviction_score(&entry) at the clock reading now; the score is the one
\* result of the call.
Score ==
    /\ Idle
    /\ \E entry \in ScoredEntries :
          last' = Call("eviction_score", entry.id, <<>>, entry, 0, <<>>, Ok, <<>>,
                       <<eviction_score(entry, now)>>)
    /\ UNCHANGED <<storage, cache, cfg, now, hist, builder, generator, generated>>

NextScore ==
    \/ Score
    \/ Tick
    \/ Return

SpecScore == InitScore /\ [][NextScore]_vars

----------------------------------------------------------------------------
(* Properties of the vector store, checked under SpecDB *)

\* The region of the buffer that belongs to a live id, and the similarity of
\* a query to it.
own_embedding(db, id) == slice(db, db.id_to_idx[id])

own_score(db, q, id) == cosine_similarity(q, own_embedding(db, id))

\* Whether a call names the id among its arguments.
Names(call, id) == call.id = id \/ call.entry.id = id \/ id \in Range(call.ids)

Found(embedding, entry) == [res |-> Ok, out |-> <<SearchResult(embedding, entry)>>]

\* C1: search(q, limit), for a query of the store's dimensionality, returns
\* exactly min(limit, n) results, in non-increasing order of the similarity
\* between q and each returned entry's own stored embedding, and no live entry
\* left out is strictly more similar to q than a returned one.
C1_SearchRanked ==
    (last.op = "search" /\ Len(last.embedding) = storage.dim) =>
        /\ last.res = Ok
        /\ Len(last.order) = Min(last.limit, count(storage))
        /\ \A i, j \in DOMAIN last.order :
              i < j => partial_cmp(own_score(storage, last.embedding, last.order[i]),
                                   own_score(storage, last.embedding, last.order[j]))
                         # "Less"
        /\ \A id \in (DOMAIN storage.id_to_idx) \ Range(last.order) :
              \A i \in DOMAIN last.order :
                  partial_cmp(own_score(storage, last.embedding, id),
                              own_score(storage, last.embedding, last.order[i]))
                    # "Greater"

\* C2: a successful insert(e, entry) makes search_by_id(entry.id) return
\* exactly (e, entry), and no later call that does not name the id changes what
\* search_by_id returns for it.
C2_RoundTrip ==
    [][/\ (Idle /\ last'.op = "insert" /\ last'.res = Ok) =>
              search_by_id(storage', last'.entry.id)
                = Found(last'.embedding, last'.entry)
       /\ \A id \in Ids :
              (Idle /\ ~Names(last', id) /\ search_by_id(storage, id).res = Ok) =>
                  search_by_id(storage', id) = search_by_id(storage, id)]_vars

\* An insert has just reused a freed slot below the slot of another live id.
C2_Witness ==
    /\ last.op = "insert" /\ last.res = Ok
    /\ \E id \in (DOMAIN storage.id_to_idx) \ {last.id} :
          /\ storage.id_to_idx[id] > storage.id_to_idx[last.id]
          /\ search_by_id(storage, id).res = Ok

\* C3: insert of an embedding whose length differs from dim returns
\* MismatchedDimensions(dim, length) and leaves the whole store (count, buffer,
\* index, payloads, free-list) unchanged.
C3_DimensionMismatch ==
    [][(Idle /\ last'.op = "insert" /\ Len(last'.embedding) # storage.dim) =>
          /\ last'.res = mismatched_dimensions(storage.dim, Len(last'.embedding))
          /\ count(storage') = count(storage)
          /\ storage' = storage]_vars

\* A mismatched insert was rejected by a store that holds an entry and a free
\* slot.
C3_Witness ==
    /\ last.op = "insert" /\ last.res.kind = "MismatchedDimensions"
    /\ Len(last.embedding) # storage.dim
    /\ count(storage) > 0 /\ storage.free_list # <<>>

\* C4: the offsets of the live ids and of the free-list are pairwise distinct
\* multiples of dim that cover the buffer exactly: buffer length =
\* dim * (number of live ids + free-list length).
C4_SlotsTileBuffer ==
    LET live == DOMAIN storage.id_to_idx
        free == storage.free_list
    IN /\ \A a, b \in live : a # b => storage.id_to_idx[a] # storage.id_to_idx[b]
       /\ \A i, j \in DOMAIN free : i # j => free[i] # free[j]
       /\ \A a \in live : storage.id_to_idx[a] \notin Range(free)
       /\ \A a \in live : storage.id_to_idx[a] % storage.dim = 0
       /\ \A i \in DOMAIN free : free[i] % storage.dim = 0
       /\ Len(storage.data) = storage.dim * (Cardinality(live) + Len(free))

\* C5: the ids that have a payload are the ids that have a slot.
C5_PayloadsMatchSlots == DOMAIN storage.payloads = DOMAIN storage.id_to_idx

----------------------------------------------------------------------------
(* Properties of the manager, checked under Spec *)

\* C6: the number of live entries in the cache never exceeds
\* max_memory_limit + 1.
C6_CacheBounded ==
    cache.present => count(cache.store) <= cache.max_memory_limit + 1

\* C7: after update_memory_access succeeds for an entry that qualifies for
\* caching, is held in durable storage and was not live in the cache, the entry
\* is live in the cache (count() includes it) and every cache search over all
\* the ids returns it.
C7_AccessPromotes ==
    [][(/\ Idle /\ last'.op = "update_memory_access" /\ last'.res = Ok
        /\ cache.present
        /\ should_cache(cfg, accessed(last'.entry, now))
        /\ last'.entry.id \in DOMAIN storage.id_to_idx
        /\ last'.entry.id \notin DOMAIN cache.store.id_to_idx) =>
          /\ last'.entry.id \in DOMAIN cache'.store.id_to_idx
          /\ count(cache'.store) = count(cache.store) + 1
          /\ \A text \in Texts :
                \A r \in search(cache'.store, TextEmbedding(text), NumIds) :
                    r.res = Ok /\ last'.entry.id \in Range(r.order)]_vars

\* What the cache's search can return for retrieve's query: nothing when no
\* cache is configured.
CacheSearch(embedding, limit) ==
    IF cache.present THEN search(cache.store, embedding, limit)
    ELSE {[res |-> Ok, order |-> <<>>, out |-> <<>>]}

\* C8: a retrieve(q, limit) that returns, returns at most limit entries: the
\* cache's results in rank order, followed, only when they are fewer than
\* limit, by the durable storage's top (limit - their number) results; with no
\* cache it returns the durable storage's search(q, limit).  It ends in a
\* panic only when a search it had to make does: the durable storage is not
\* searched when the cache returned limit results.
C8_RetrieveMerges ==
    (last.op = "retrieve" /\ last.embedding # <<>>) =>
        /\ last.res \in {Ok, Panic}
        /\ last.res = Ok =>
              /\ Len(last.out) <= last.limit
              /\ \E c \in CacheSearch(last.embedding, last.limit) :
                    /\ c.res = Ok /\ c.order = last.order
                    /\ Len(c.out) <= last.limit
                    /\ IF Len(c.out) = last.limit
                       THEN last.out = Entries(c.out)
                       ELSE \E d \in search(storage, last.embedding,
                                            last.limit - Len(c.out)) :
                               /\ d.res = Ok
                               /\ last.out = Entries(c.out) \o Entries(d.out)
        /\ last.res = Panic =>
              \E c \in CacheSearch(last.embedding, last.limit) :
                  \/ c.res = Panic
                  \/ /\ Len(c.out) < last.limit
                     /\ \E d \in search(storage, last.embedding,
                                        last.limit - Len(c.out)) : d.res = Panic

\* A retrieve returned a cache result followed by a durable result whose
\* payload differs from it.
C8_Witness ==
    /\ last.op = "retrieve" /\ last.res = Ok
    /\ Len(last.order) = 1 /\ Len(last.out) = 2
    /\ last.out[1] # last.out[2]

\* C9: a retrieve on a manager with a cache whose cache search returns adds
\* exactly one count to the statistics: one hit if the search returned at
\* least one result, otherwise one miss (so one miss on an empty cache); store
\* and update_memory_access leave hits and misses as they are.
C9_HitOrMiss ==
    [][/\ (/\ Idle /\ last'.op = "retrieve" /\ cache.present
           /\ last'.embedding # <<>>
           /\ ~search_panics(cache.store, last'.embedding)) =>
              IF Min(last'.limit, count(cache.store)) > 0
              THEN cache'.hits = cache.hits + 1 /\ cache'.misses = cache.misses
              ELSE cache'.misses = cache.misses + 1 /\ cache'.hits = cache.hits
       /\ (Idle /\ last'.op \in {"store", "update_memory_access"}) =>
              cache'.hits = cache.hits /\ cache'.misses = cache.misses]_vars

\* A retrieve on an empty cache recorded the miss and returned a durable
\* result.
C9_Witness ==
    /\ last.op = "retrieve" /\ last.res = Ok /\ cache.present
    /\ count(cache.store) = 0 /\ cache.misses = 1 /\ cache.hits = 0
    /\ last.order = <<>> /\ Len(last.out) = 1

\* The caching predicate as the configuration states it.
Accepts(entry) ==
    IF cfg.custom_caching_strategy # "None"
    THEN custom_strategy(cfg, entry)
    ELSE entry.importance > 50 \/ entry.access_count > 0

\* C10: after store(text, entry) succeeds, durable storage holds entry under
\* entry.id with the embedder's vector for text; the cache holds it if and only
\* if a cache is configured and the caching predicate accepts entry, and
\* otherwise the cache is as it was.
C10_StoreWrites ==
    [][(Idle /\ last'.op = "store" /\ last'.res = Ok) =>
          LET entry == last'.entry
              held == Found(TextEmbedding(last'.text), entry)
          IN /\ search_by_id(storage', entry.id) = held
             /\ IF cache.present /\ Accepts(entry)
                THEN search_by_id(cache'.store, entry.id) = held
                ELSE /\ cache' = cache
                     /\ search_by_id(cache'.store, entry.id) # held]_vars

\* A store put its entry into a full cache, in the slot of the entry it
\* evicted.
C10_Witness ==
    /\ last.op = "store" /\ last.res = Ok /\ cache.present
    /\ count(storage) = 2
    /\ DOMAIN cache.store.id_to_idx = {last.entry.id}
    /\ cache.store.free_list = <<>> /\ Len(cache.store.data) = cache.store.dim
    /\ storage.id_to_idx[last.entry.id] > 0

\* C11: if the embedder returns an error during store(text, entry), store
\* returns that same error, the embedder has been called exactly once, and
\* durable storage and the cache are unchanged.
C11_EmbedderErrorAborts ==
    [][(Idle /\ last'.op = "store" /\ last'.embedding = <<>>) =>
          /\ last'.res = embed_text(last'.text, TRUE).res
          /\ last'.res # Ok
          /\ last'.embeds = 1
          /\ storage' = storage
          /\ cache' = cache]_vars

\* The embedder failed in a store on a manager that holds an entry in durable
\* storage and in the cache.
C11_Witness ==
    /\ last.op = "store" /\ last.embedding = <<>> /\ last.res = EmbedderError
    /\ count(storage) > 0
    /\ cache.present /\ count(cache.store) > 0

\* A store whose embedder returned the vector, whose durable insert succeeds
\* and whose cache insert fails: last' is the call, the unprimed variables the
\* manager it is made on.
CacheWriteFails ==
    /\ Idle /\ last'.op = "store" /\ last'.embedding # <<>>
    /\ insert(storage, last'.embedding, last'.entry).res = Ok
    /\ cache.present /\ Accepts(last'.entry)
    /\ Len(last'.embedding) # cache.store.dim

\* C12: if the durable insert of a store succeeds and the cache insert then
\* fails, the entry is in durable storage, with its embedding, after store
\* returns.
C12_CacheFailureKeepsDurable ==
    [][CacheWriteFails =>
          /\ last'.res # Ok
          /\ search_by_id(storage', last'.entry.id)
                = Found(last'.embedding, last'.entry)]_vars

\* A store failed on a cache of another dimensionality and its entry is in
\* durable storage, in a slot it did not hold before.
C12_Witness ==
    /\ last.op = "store" /\ last.res = mismatched_dimensions(other_dim, dim)
    /\ cache.present /\ cache.store.dim = other_dim
    /\ search_by_id(storage, last.entry.id)
         = Found(last.embedding, last.entry)
    /\ count(storage) = 2

\* C13: if the durable insert of a store succeeds and the cache insert fails,
\* store as a whole reports success.
C13_CacheFailureNotReported ==
    [][CacheWriteFails => last'.res = Ok]_vars

\* C14: in every cache state the manager reaches, evict_from_cache(k)
\* succeeds, removes exactly min(k, n) of the n live entries, and every entry
\* it removes has an eviction score no higher than that of every entry that
\* remains.
C14_EvictsLowest ==
    cache.present =>
        \A k \in 0..NumIds :
            \A r \in evict_from_cache(cache.store, k, now) :
                LET live == DOMAIN cache.store.id_to_idx
                    gone == live \ DOMAIN r.db.id_to_idx
                IN /\ r.res = Ok
                   /\ Cardinality(gone) = Min(k, count(cache.store))
                   /\ \A a \in gone, b \in live \ gone :
                         eviction_score(cache.store.payloads[a], now)
                           <= eviction_score(cache.store.payloads[b], now)

----------------------------------------------------------------------------
(* Further properties of the vector store, checked under SpecDB *)

\* C15: update_payload_by_id(id, entry) on a store that holds no payload for
\* id fails with EmbeddingNotExists(id) and leaves the store unchanged.
C15_UpdateAbsentFails ==
    [][(/\ Idle /\ last'.op = "update_payload_by_id"
        /\ last'.id \notin DOMAIN storage.payloads) =>
          /\ last'.res = embedding_not_exists(last'.id)
          /\ storage' = storage]_vars

\* C16: the delete of a live id succeeds and lowers count() by one; the same
\* delete made again at once fails with EmbeddingNotExists(id) and leaves
\* count(), the index, the payloads, the buffer and the free-list as the
\* first delete left them.
C16_DeleteTwice ==
    [][/\ (last'.op = "delete" /\ last'.id \in DOMAIN storage.id_to_idx) =>
              /\ last'.res = Ok
              /\ count(storage') = count(storage) - 1
              /\ ~last'.again
       /\ (last'.op = "delete" /\ last'.again) =>
              /\ last.op = "delete" /\ last.res = Ok /\ last.id = last'.id
              /\ last'.res = embedding_not_exists(last'.id)
              /\ count(storage') = count(storage)
              /\ storage' = storage]_vars

\* The second of two deletes of an id has returned; the slot the first one
\* freed is in the free-list once, and another entry is live.
C16_Witness ==
    /\ last.op = "delete" /\ last.again
    /\ last.res = embedding_not_exists(last.id)
    /\ Len(storage.free_list) = 1
    /\ count(storage) = 1 /\ last.id \notin DOMAIN storage.id_to_idx

\* The number of ids delete_batch(ids) deletes on db: the longest prefix of
\* ids whose ids are live in db and differ from one another.
BatchPrefix(db, ids) ==
    LET Deletable(i) == /\ ids[i] \in DOMAIN db.id_to_idx
                        /\ \A j \in 1..(i - 1) : ids[j] # ids[i]
    IN CHOOSE n \in 0..Len(ids) :
          /\ \A i \in 1..n : Deletable(i)
          /\ n < Len(ids) => ~Deletable(n + 1)

\* C17: delete_batch(ids) deletes ids in list order and stops at the first id
\* that is not live by then: it returns EmbeddingNotExists for that id, the ids
\* before it are deleted (their slots pushed onto the free-list in list
\* order), and every other id is as it was; if all are live it deletes all
\* and returns Ok.
C17_BatchStopsAtFirstDead ==
    [][(Idle /\ last'.op = "delete_batch") =>
          LET ids == last'.ids
              n == BatchPrefix(storage, ids)
              done == {ids[i] : i \in 1..n}
          IN /\ last'.res = IF n = Len(ids) THEN Ok
                            ELSE embedding_not_exists(ids[n + 1])
             /\ DOMAIN storage'.id_to_idx = (DOMAIN storage.id_to_idx) \ done
             /\ \A id \in DOMAIN storage'.id_to_idx :
                   storage'.id_to_idx[id] = storage.id_to_idx[id]
             /\ DOMAIN storage'.payloads = (DOMAIN storage.payloads) \ done
             /\ \A id \in DOMAIN storage'.payloads :
                   storage'.payloads[id] = storage.payloads[id]
             /\ storage'.free_list
                  = storage.free_list \o [i \in 1..n |-> storage.id_to_idx[ids[i]]]
             /\ storage'.data = storage.data]_vars

\* A batch stopped at its second id, already deleted as its first: the first
\* id is gone and the third, listed after the failure, is still live.
C17_Witness ==
    /\ last.op = "delete_batch" /\ Len(last.ids) = 3
    /\ last.ids[1] = last.ids[2] /\ last.ids[3] # last.ids[1]
    /\ last.res = embedding_not_exists(last.ids[2])
    /\ last.ids[1] \notin DOMAIN storage.id_to_idx
    /\ search_by_id(storage, last.ids[3]).res = Ok
    /\ storage.free_list # <<>>

\* C18: no two live ids are mapped to the same buffer offset, no offset in the
\* free-list is mapped to by a live id, and no offset appears twice in the
\* free-list.
C18_SlotsDistinct ==
    LET live == DOMAIN storage.id_to_idx
        free == storage.free_list
    IN /\ \A a, b \in live : a # b => storage.id_to_idx[a] # storage.id_to_idx[b]
       /\ \A a \in live : \A i \in DOMAIN free : storage.id_to_idx[a] # free[i]
       /\ \A i, j \in DOMAIN free : i # j => free[i] # free[j]

\* A batch has just freed two slots, or an insert has taken one of two free
\* slots and left the other.
C18_Witness ==
    \/ /\ last.op = "delete_batch" /\ last.res = Ok
       /\ Len(storage.free_list) = 2
    \/ /\ last.op = "insert" /\ last.res = Ok
       /\ count(storage) = 1 /\ Len(storage.free_list) = 1
       /\ Len(storage.data) = 2 * storage.dim

\* C19: an insert appends to the buffer only when the free-list is empty, by
\* dim floats; and as long as every successful insert was of an id not live
\* at the time, the buffer is never longer than dim times the largest number
\* of ids that were live at the same time.
C19_SlotsReused ==
    [][/\ (/\ Idle /\ last'.op = "insert"
           /\ Len(storage'.data) # Len(storage.data)) =>
              /\ last'.res = Ok
              /\ storage.free_list = <<>>
              /\ Len(storage'.data) = Len(storage.data) + storage.dim
       /\ hist'.fresh => Len(storage'.data) <= storage'.dim * hist'.peak]_vars

\* Two ids were inserted, the first was deleted and an id was inserted in its
\* slot: the buffer holds two slots, as many as were live at the same time.
C19_Witness ==
    /\ hist.fresh /\ hist.peak = 2
    /\ last.op = "insert" /\ last.res = Ok
    /\ count(storage) = 2 /\ Len(storage.data) = 2 * storage.dim
    /\ storage.id_to_idx[last.id] = 0
    /\ storage.free_list = <<>>

\* C20: get_oldest(limit) and get_recent(limit) return Ok with exactly
\* min(limit, count()) results, ordered by created_at ascending (get_oldest)
\* or descending (get_recent), each result pairing an entry of the store with
\* its own stored embedding.
C20_OldestRecent ==
    (last.op \in {"get_oldest", "get_recent"}) =>
        /\ last.res = Ok
        /\ Len(last.out) = Min(last.limit, count(storage))
        /\ \A i, j \in DOMAIN last.out :
              i < j => IF last.op = "get_oldest"
                       THEN last.out[i].entry.created_at
                              <= last.out[j].entry.created_at
                       ELSE last.out[i].entry.created_at
                              >= last.out[j].entry.created_at
        /\ \A i \in DOMAIN last.out :
              search_by_id(storage, last.out[i].entry.id)
                = Found(last.out[i].embedding, last.out[i].entry)

----------------------------------------------------------------------------
(* Further properties of the manager, checked under Spec *)

\* C21: after update_memory_access(entry) succeeds for an entry held in
\* durable storage, the copy held in durable storage has access_count one
\* higher than before and last_accessed equal to the current time.
C21_AccessUpdatesDurable ==
    [][(/\ Idle /\ last'.op = "update_memory_access" /\ last'.res = Ok
        /\ last'.entry.id \in DOMAIN storage.payloads) =>
          LET id == last'.entry.id
          IN /\ id \in DOMAIN storage'.payloads
             /\ storage'.payloads[id].access_count
                  = storage.payloads[id].access_count + 1
             /\ storage'.payloads[id].last_accessed = now]_vars

\* C22: for every id, the access_count of the payload held for it in the
\* cache and of the payload held for it in durable storage never decreases
\* from one state to the next while the id has a payload there.
C22_AccessCountMonotone ==
    [][\A id \in Ids :
          /\ (id \in DOMAIN storage.payloads /\ id \in DOMAIN storage'.payloads) =>
                storage'.payloads[id].access_count
                  >= storage.payloads[id].access_count
          /\ (/\ id \in DOMAIN cache.store.payloads
              /\ id \in DOMAIN cache'.store.payloads) =>
                cache'.store.payloads[id].access_count
                  >= cache.store.payloads[id].access_count]_vars

----------------------------------------------------------------------------
(* Further properties of the vector store, checked under SpecDB *)

\* C23: update_payload_by_id(id, entry) on a live id replaces only the payload
\* of id: the buffer, the index, the free-list, count() and every other id's
\* payload are unchanged, and search_by_id(id) afterwards returns the original
\* embedding with the new payload.
C23_UpdateReplacesPayloadOnly ==
    [][(/\ Idle /\ last'.op = "update_payload_by_id"
        /\ last'.id \in DOMAIN storage.id_to_idx) =>
          LET id == last'.id
          IN /\ last'.res = Ok
             /\ storage'.data = storage.data
             /\ storage'.id_to_idx = storage.id_to_idx
             /\ storage'.free_list = storage.free_list
             /\ count(storage') = count(storage)
             /\ DOMAIN storage'.payloads = DOMAIN storage.payloads
             /\ \A other \in (DOMAIN storage.payloads) \ {id} :
                   storage'.payloads[other] = storage.payloads[other]
             /\ search_by_id(storage', id)
                  = Found(own_embedding(storage, id), last'.entry)]_vars

\* The payload of one of two live ids has been replaced; the id is still
\* found with the embedding of its slot.
C23_Witness ==
    /\ last.op = "update_payload_by_id" /\ last.res = Ok
    /\ count(storage) = 2 /\ last.id \in DOMAIN storage.id_to_idx
    /\ storage.id_to_idx[last.id] > 0
    /\ search_by_id(storage, last.id)
         = Found(own_embedding(storage, last.id), last.entry)

----------------------------------------------------------------------------
(* Properties of eviction_score, checked under SpecScore *)

\* C24: the eviction score of an entry at time now is
\* access_count * 1000 + round(importance * 100) * 100 - (now - last_accessed);
\* importance being h hundredths, round(importance * 100) is h.
C24_EvictionScoreFormula ==
    (last.op = "eviction_score") =>
        last.out[1] = last.entry.access_count * 1000
                        + last.entry.importance * 100
                        - (now - last.entry.last_accessed)

----------------------------------------------------------------------------
(* Properties of the builder, checked under SpecBuild *)

\* C25: build fails with StorageNotFound when no storage was set, and with
\* EmbedderNotFound when storage was set but no embedder; it succeeds whenever
\* both were set, whether or not a cache or a config was given, with the
\* default config when none was given and no cache when none was given.
C25_BuildErrors ==
    [][(last'.op = "build") =>
          /\ ~builder.storage.some => last'.res = StorageNotFound
          /\ (builder.storage.some /\ ~builder.embedder.some) =>
                last'.res = EmbedderNotFound
          /\ (builder.storage.some /\ builder.embedder.some) =>
                /\ last'.res = Ok
                /\ storage' = builder.storage.value
                /\ cfg' = IF builder.cfg.some THEN builder.cfg.value
                          ELSE MemoryConfig("None")
                /\ cache' = IF builder.hot_cache.some THEN builder.hot_cache.value
                            ELSE NoCache]_vars

\* A builder that was given a cache and a config but neither storage nor
\* embedder has been built, and a builder that was given only storage and
\* embedder has.
C25_Witness ==
    /\ last.op = "build" /\ builder.consumed
    /\ \/ /\ ~builder.storage.some /\ ~builder.embedder.some
          /\ builder.cfg.some /\ builder.hot_cache.some
          /\ last.res = StorageNotFound
       \/ /\ builder.storage.some /\ builder.embedder.some
          /\ ~builder.cfg.some /\ ~builder.hot_cache.some
          /\ last.res = Ok /\ cache = NoCache /\ cfg = MemoryConfig("None")

----------------------------------------------------------------------------
(* The region search reads *)

\* C30: in every store reached by inserts and deletes, the region search
\* reads for a live id is inside the buffer and is the region search_by_id
\* reads for the id, the id's own slot.
C30_SearchReadsOwnSlot ==
    \A id \in DOMAIN storage.id_to_idx :
        /\ slice_in_bounds(storage, search_offset(storage, storage.id_to_idx[id]))
        /\ search_offset(storage, storage.id_to_idx[id]) = storage.id_to_idx[id]

----------------------------------------------------------------------------
(* Properties of the config's limits *)

\* C26: when max_total_memories is Some(m), the durable storage never holds
\* more than m memories, whatever store calls are made.
C26_MaxTotalMemories ==
    cfg.max_total_memories.some =>
        count(storage) <= cfg.max_total_memories.value

\* C27: a store that runs the cache's eviction takes eviction_batch_size
\* entries out of the cache.
C27_EvictionBatchSize ==
    (last.op = "store" /\ last.evictions # <<>>) =>
        last.evictions = <<cfg.eviction_batch_size>>

----------------------------------------------------------------------------
(* Properties of the id generator *)

\* The digits of k in a field of w characters, zeros in front (k < 10^w).
Padded(k, w) == [i \in 1..w |-> DigitChars[((k \div 10^(w - i)) % 10) + 1]]

\* The generator is MemoryIdGenerator::new() after Len(generated) calls that
\* each added one to its counter.
IsDefaultGenerator ==
    generator.prefix = mem /\ generator.counter = Len(generated) + 1

C29_SixDigitIds ==
    [][(IsDefaultGenerator /\ last'.op = "generate_id") =>
          /\ generated' =
                Append(generated, mem \o <<"-">> \o Padded(Len(generated) + 1, 6))
          /\ (generated = <<>>) =>
                generated'[1] = <<"m", "e", "m", "-", "0", "0", "0", "0", "0", "1">>
          /\ (Len(generated) = 1) =>
                generated'[2] = <<"m", "e", "m", "-", "0", "0", "0", "0", "0", "2">>]_vars

----------------------------------------------------------------------------
(* Properties of search results and of the two tiers *)

\* C31: every result of a search that returns pairs the entry with the
\* entry's own stored embedding, the embedding search_by_id returns for the
\* entry's id.
C31_SearchReturnsOwnEmbedding ==
    (last.op = "search" /\ last.res = Ok) =>
        \A i \in DOMAIN last.out :
            /\ search_by_id(storage, last.out[i].entry.id).res = Ok
            /\ last.out[i].embedding =
                  search_by_id(storage, last.out[i].entry.id).out[1].embedding

\* The cache is not stale: every id with a slot or a payload in the cache has
\* a slot in the durable storage and the same payload there.
CacheNotStale ==
    \A id \in (DOMAIN cache.store.id_to_idx) \cup (DOMAIN cache.store.payloads) :
        /\ id \in DOMAIN cache.store.id_to_idx
        /\ id \in DOMAIN cache.store.payloads
        /\ id \in DOMAIN storage.id_to_idx
        /\ id \in DOMAIN storage.payloads
        /\ cache.store.payloads[id] = storage.payloads[id]

\* C32: while the cache is not stale, a retrieve that returns does not return
\* the same entry id twice.
C32_RetrieveNoDuplicates ==
    (last.op = "retrieve" /\ last.res = Ok /\ CacheNotStale) =>
        \A i, j \in DOMAIN last.out : i # j => last.out[i].id # last.out[j].id

====
